---- MODULE Spec2Model ----
(***************************************************************************)
(* Task-queue pipeline of otel_python: producers push jobs onto the Redis  *)
(* list "tasks", workers pop them, transform the payload and write the     *)
(* outcome into the Redis hash "results" (unknown kinds go to the list     *)
(* "dead_letter").  Two producers (main.enqueue, TaskService.submit_task), *)
(* two consumers (worker.worker_loop/handle, WorkerService) and two        *)
(* pollers (main.get_result, TaskService.get_task_result) are modelled.    *)
(* Strings are sequences of one-character strings.  The startup of the     *)
(* worker process (main, ensure_redis) and the heartbeat of worker_loop    *)
(* have specifications of their own: StartSpec and TimedSpec; SizeSpec     *)
(* calls the producers with payloads around the length limit.              *)
(***************************************************************************)
EXTENDS Integers, Sequences, FiniteSets, TLC

\* ------------------------------------------------------------ bounds
\* number of tasks the producers may push in one behaviour
MaxTasks == 2
\* number of Redis commands that may fail (raise) in one behaviour
MaxFaults == 2
\* last clock value the timed specification lets the clock reach from
MaxTime == 60

\* ------------------------------------------------------------ constants
\* domain.py: len(self.payload) > 10000
MaxPayload == 10000
\* worker.py: await asyncio.sleep(1) in the slow branch of handle
SlowDelay == 1
\* worker.py: await asyncio.sleep(1) in the except clause of worker_loop
ErrorPause == 1
\* worker.py: async def ensure_redis(max_attempts: int = 20)
DefaultMaxAttempts == 20
\* worker.py: wait = min(0.5 * attempt, 5), in tenths of a time unit: 0.5
BackoffStep == 5
\* worker.py: wait = min(0.5 * attempt, 5), in tenths of a time unit: 5
BackoffCap == 50
\* worker.py: r.blpop(QUEUE, timeout=5)
BlpopTimeout == 5
\* worker.py: async def worker_loop(heartbeat_interval: float = 30.0)
heartbeat_interval == 30

\* ------------------------------------------------------------ strings
LowerCase == <<"a", "b", "c", "d", "e", "f", "g", "h", "i", "j", "k", "l", "m",
               "n", "o", "p", "q", "r", "s", "t", "u", "v", "w", "x", "y", "z">>
UpperCase == <<"A", "B", "C", "D", "E", "F", "G", "H", "I", "J", "K", "L", "M",
               "N", "O", "P", "Q", "R", "S", "T", "U", "V", "W", "X", "Y", "Z">>

\* str.upper() on one ASCII character
UpperChar(c) ==
    IF \E i \in 1..Len(LowerCase) : LowerCase[i] = c
    THEN UpperCase[CHOOSE i \in 1..Len(LowerCase) : LowerCase[i] = c]
    ELSE c

\* str.isspace() on one character
IsSpace(c) == c \in {" ", "\t", "\n", "\r"}

\* text[::-1]
reverse_text(text) == [i \in 1..Len(text) |-> text[Len(text) + 1 - i]]

\* text.upper()
uppercase_text(text) == [i \in 1..Len(text) |-> UpperChar(text[i])]

\* "processed:" followed by the text
ProcessedPrefix == <<"p", "r", "o", "c", "e", "s", "s", "e", "d", ":">>
slow_process_text(text) == ProcessedPrefix \o text

\* str.strip(): leading and trailing whitespace removed
Strip(s) ==
    LET keep == {i \in 1..Len(s) : ~IsSpace(s[i])}
    IN  IF keep = {} THEN <<>>
        ELSE SubSeq(s, CHOOSE i \in keep : \A j \in keep : i <= j,
                       CHOOSE i \in keep : \A j \in (i + 1)..Len(s) : IsSpace(s[j]))

\* str.startswith(prefix)
StartsWith(s, prefix) ==
    Len(s) >= Len(prefix) /\ SubSeq(s, 1, Len(prefix)) = prefix

\* s[n:]
DropFirst(s, n) == SubSeq(s, n + 1, Len(s))

\* the marker handle stores for a dead-lettered job
DeadLetterMarker == <<"d", "e", "a", "d", "_", "l", "e", "t", "t", "e", "r">>
\* f"error: {str(e)}": the prefix the workers write
ErrorWritePrefix == <<"e", "r", "r", "o", "r", ":", " ">>
\* result.startswith("error:"): the prefix get_task_result looks for
ErrorReadPrefix == <<"e", "r", "r", "o", "r", ":">>
\* str(e) of the exception a failing Redis command raises
StoreErrorMessage == <<"d", "o", "w", "n">>
\* Optional[str] fields of TaskResult that are None
None == <<"None">>

\* ------------------------------------------------------------ inputs
\* TaskType: the kinds the domain layer knows
TaskType == {"reverse", "uppercase", "slow"}
\* enqueue(kind: str, ...) takes any string: one foreign kind stands for them
Kinds == TaskType \cup {"frobnicate"}
\* payloads the producers are called with
Payloads == { <<>>,
              <<" ">>,
              <<"a", "b">>,
              <<"a", " ", ":", "r", "o", "r", "r", "e">> }

\* ------------------------------------------------------------ processes
\* worker.py processes (main -> worker_loop)
LoopWorkers == {"w1"}
\* callers of WorkerService.process_next_task
SvcWorkers == {"s1"}
Workers == LoopWorkers \cup SvcWorkers

NoJob == [id |-> 0, kind |-> "", data |-> <<>>]

VARIABLES
    queue,          \* Redis list "tasks": serialized jobs, head first
    dead_letter,    \* Redis list "dead_letter"
    results,        \* Redis hash "results": task id -> string
    pushed,         \* every job pushed so far, in push order
    ret,            \* what the last producer call returned or raised
    pc,             \* each worker's position in its code
    job,            \* each worker's job / task in flight
    result,         \* each worker's local variable result
    processed,      \* worker_loop's counter processed
    shutdown_flag,  \* worker.py's shutdown_flag["stop"], one per process
    sleeping,       \* argument of the asyncio.sleep a worker is suspended in
    faults,         \* number of Redis commands that have failed so far
    popped,         \* history: who popped which task id, in pop order
    faulted,        \* history: ids of the tasks during whose handling a Redis command failed
    sig_job,        \* history: id of the job a loop worker had in flight when the
                    \* shutdown signal first arrived (0: none in flight, or no signal)
    late_pops,      \* history: number of pops a loop worker completed with its
                    \* stop flag already set
    max_attempts,   \* ensure_redis's parameter max_attempts, one per process
    attempt,        \* ensure_redis's loop variable attempt
    probes,         \* history: number of r.ping() calls made so far
    waits,          \* history: the waits ensure_redis has slept, in tenths of a unit
    exit_status,    \* exit status of the worker process (-1: still running)
    now,            \* time.time(), in time units
    last_heartbeat, \* worker_loop's local variable last_heartbeat
    beats           \* history: the heartbeats emitted, each with its time

store == <<queue, dead_letter, results>>
prod == <<pushed, ret>>
wrk == <<pc, job, result, processed, shutdown_flag, sleeping>>
hist == <<faults, popped, faulted, sig_job, late_pops>>
boot == <<max_attempts, attempt, probes, waits, exit_status>>
clock == <<now, last_heartbeat, beats>>
vars == <<queue, dead_letter, results, pushed, ret, pc, job, result, processed,
          shutdown_flag, sleeping, faults, popped, faulted, sig_job, late_pops,
          max_attempts, attempt, probes, waits, exit_status,
          now, last_heartbeat, beats>>

\* ------------------------------------------------------------ wire format
\* json.dumps({"id": ..., "kind": ..., "data": ...})
dumps(j) == <<j.id, j.kind, j.data>>
\* json.loads(raw)
loads(raw) == [id |-> raw[1], kind |-> raw[2], data |-> raw[3]]

\* ------------------------------------------------------------ Redis
\* HSET key field value
hset(h, field, value) ==
    [f \in DOMAIN h \cup {field} |-> IF f = field THEN value ELSE h[f]]
\* RPUSH
rpush(list, item) == Append(list, item)
\* a Redis command may raise while the fault budget lasts
CanFail == faults < MaxFaults

\* ------------------------------------------------------------ domain.py
\* TaskRequest.validate: "ok", or the exception it raises
validate(payload) ==
    IF Strip(payload) = <<>> THEN "ValueError"
    ELSE IF Len(payload) > MaxPayload THEN "ValueError"
    ELSE "ok"

\* mutant of uuid4: the identifier of the first task is handed out again
uuid4_reused == IF pushed = <<>> THEN Len(pushed) + 1 ELSE pushed[1].id

\* str(uuid.uuid4()): an identifier no earlier call has returned
uuid4 == Len(pushed) + 1

\* Task.to_queue_message
to_queue_message(id, task_type, payload) ==
    [id |-> id, kind |-> task_type, data |-> payload]

\* TaskProcessor.process_task
process_task(task) ==
    CASE task.kind = "reverse" -> reverse_text(task.data)
      [] task.kind = "uppercase" -> uppercase_text(task.data)
      [] task.kind = "slow" -> slow_process_text(task.data)

\* ------------------------------------------------------------ Init
\* every worker process has started: its first probe succeeded and it has
\* entered worker_loop at time 0
Init ==
    /\ queue = <<>>
    /\ dead_letter = <<>>
    /\ results = [f \in {} |-> <<>>]
    /\ pushed = <<>>
    /\ ret = [task_id |-> 0, error |-> "none"]
    /\ pc = [w \in Workers |-> IF w \in LoopWorkers THEN "while" ELSE "idle"]
    /\ job = [w \in Workers |-> NoJob]
    /\ result = [w \in Workers |-> <<>>]
    /\ processed = [w \in LoopWorkers |-> 0]
    /\ shutdown_flag = [w \in LoopWorkers |-> FALSE]
    /\ sleeping = [w \in Workers |-> 0]
    /\ faults = 0
    /\ popped = <<>>
    /\ faulted = {}
    /\ sig_job = [w \in LoopWorkers |-> 0]
    /\ late_pops = [w \in LoopWorkers |-> 0]
    /\ max_attempts = [w \in LoopWorkers |-> DefaultMaxAttempts]
    /\ attempt = [w \in LoopWorkers |-> 1]
    /\ probes = [w \in LoopWorkers |-> 1]
    /\ waits = [w \in LoopWorkers |-> <<>>]
    /\ exit_status = [w \in LoopWorkers |-> -1]
    /\ now = 0
    /\ last_heartbeat = [w \in LoopWorkers |-> 0]
    /\ beats = <<>>

\* ------------------------------------------------------------ producers
\* main.enqueue(kind, payload): no validation, any kind
enqueue(kind, payload) ==
    /\ Len(pushed) < MaxTasks
    /\ LET task_id == uuid4
           j == [id |-> task_id, kind |-> kind, data |-> payload]
       IN  /\ queue' = rpush(queue, dumps(j))
           /\ pushed' = Append(pushed, j)
           /\ ret' = [task_id |-> task_id, error |-> "none"]
    /\ UNCHANGED <<boot, clock, dead_letter, results, wrk, hist>>

\* TaskService.submit_task(task_type, payload): Task.create validates first
submit_task(task_type, payload) ==
    IF validate(payload) # "ok"
    THEN /\ ret' = [task_id |-> 0, error |-> validate(payload)]
         /\ UNCHANGED <<boot, clock, store, pushed, wrk, hist>>
    ELSE /\ Len(pushed) < MaxTasks
         /\ LET task_id == uuid4
                j == to_queue_message(task_id, task_type, payload)
            IN  /\ queue' = rpush(queue, dumps(j))
                /\ pushed' = Append(pushed, j)
                /\ ret' = [task_id |-> task_id, error |-> "none"]
         /\ UNCHANGED <<boot, clock, dead_letter, results, wrk, hist>>

\* ------------------------------------------------------------ worker.py
\* positions inside handle: a job has been popped and handle has not finished
HandlePcs == {"slow_sleep", "hset", "dl_rpush", "dl_hset", "err_hset"}

\* _handle_signal: SIGTERM / SIGINT while the process runs
handle_signal(w) ==
    /\ pc[w] \notin {"stopped", "failed"}
    /\ shutdown_flag' = [shutdown_flag EXCEPT ![w] = TRUE]
    /\ sig_job' = IF ~shutdown_flag[w] /\ pc[w] \in HandlePcs
                  THEN [sig_job EXCEPT ![w] = job[w].id]
                  ELSE sig_job
    /\ UNCHANGED <<boot, clock, store, prod, pc, job, result, processed, sleeping,
                   faults, popped, faulted, late_pops>>

\* mutant of loop_enter: the body is entered without looking at the stop flag
loop_enter_ignores_flag(w) ==
    /\ pc[w] = "while"
    /\ pc' = [pc EXCEPT ![w] = "blpop"]
    /\ UNCHANGED <<boot, clock, store, prod, job, result, processed, shutdown_flag,
                   sleeping, hist>>

\* worker_loop: while not shutdown_flag["stop"] -- false: enter the body and
\* suspend in r.blpop(QUEUE, timeout=5)
loop_enter(w) ==
    /\ pc[w] = "while"
    /\ ~shutdown_flag[w]
    /\ pc' = [pc EXCEPT ![w] = "blpop"]
    /\ UNCHANGED <<boot, clock, store, prod, job, result, processed, shutdown_flag, sleeping, hist>>

\* worker_loop: while not shutdown_flag["stop"] -- true: "shutdown complete";
\* main returns and asyncio.run(main()) ends the process with status 0
loop_exit(w) ==
    /\ pc[w] = "while"
    /\ shutdown_flag[w]
    /\ pc' = [pc EXCEPT ![w] = "stopped"]
    /\ exit_status' = [exit_status EXCEPT ![w] = 0]
    /\ UNCHANGED <<max_attempts, attempt, probes, waits, clock, store, prod, job,
                   result, processed, shutdown_flag, sleeping, hist>>

\* mutant of handle_first_await: every kind takes the dead-letter branch
handle_first_await_all_dead(kind) == "dl_rpush"

\* the position handle suspends at first
handle_first_await(kind) ==
    CASE kind \in {"reverse", "uppercase"} -> "hset"
      [] kind = "slow" -> "slow_sleep"
      [] OTHER -> "dl_rpush"

\* result as handle has computed it when it first suspends
handle_first_result(j) ==
    CASE j.kind = "reverse" -> reverse_text(j.data)
      [] j.kind = "uppercase" -> uppercase_text(j.data)
      [] OTHER -> <<>>

\* worker_loop: res = await r.blpop(QUEUE, timeout=5) returns the head item;
\* job = json.loads(raw); handle(job) runs to its first await
loop_blpop_item(w) ==
    /\ pc[w] = "blpop"
    /\ queue # <<>>
    /\ LET j == loads(Head(queue))
       IN  /\ queue' = Tail(queue)
           /\ job' = [job EXCEPT ![w] = j]
           /\ result' = [result EXCEPT ![w] = handle_first_result(j)]
           /\ pc' = [pc EXCEPT ![w] = handle_first_await(j.kind)]
           /\ sleeping' = [sleeping EXCEPT ![w] =
                              IF j.kind = "slow" THEN SlowDelay ELSE 0]
           /\ popped' = Append(popped, [w |-> w, id |-> j.id])
           /\ late_pops' = [late_pops EXCEPT ![w] = IF shutdown_flag[w] THEN @ + 1 ELSE @]
    /\ UNCHANGED <<boot, clock, dead_letter, results, prod, processed, shutdown_flag,
                   faults, faulted, sig_job>>

\* mutant of loop_blpop_timeout: the heartbeat is logged at every timeout
loop_blpop_timeout_always_beats(w) ==
    /\ pc[w] = "blpop"
    /\ queue = <<>>
    /\ beats' = Append(beats, [w |-> w, at |-> now, processed |-> processed[w],
                               queue_length |-> Len(queue),
                               dead_letter |-> Len(dead_letter)])
    /\ last_heartbeat' = [last_heartbeat EXCEPT ![w] = now]
    /\ pc' = [pc EXCEPT ![w] = "while"]
    /\ UNCHANGED <<boot, now, store, prod, job, result, processed, shutdown_flag,
                   sleeping, hist>>

\* worker_loop: blpop times out (res is None): now = time.time(); when
\* now - last_heartbeat >= heartbeat_interval the heartbeat is logged and
\* last_heartbeat = now; continue
loop_blpop_timeout(w) ==
    /\ pc[w] = "blpop"
    /\ queue = <<>>
    /\ IF now - last_heartbeat[w] >= heartbeat_interval
       THEN /\ beats' = Append(beats, [w |-> w, at |-> now, processed |-> processed[w],
                                       queue_length |-> Len(queue),
                                       dead_letter |-> Len(dead_letter)])
            /\ last_heartbeat' = [last_heartbeat EXCEPT ![w] = now]
       ELSE UNCHANGED <<beats, last_heartbeat>>
    /\ pc' = [pc EXCEPT ![w] = "while"]
    /\ UNCHANGED <<boot, now, store, prod, job, result, processed, shutdown_flag,
                   sleeping, hist>>

\* mutant of loop_except: the exception escapes worker_loop and ends it
loop_except_escalates(w) ==
    /\ pc' = [pc EXCEPT ![w] = "stopped"]
    /\ sleeping' = [sleeping EXCEPT ![w] = 0]

\* mutant of loop_except: the loop retries at once, without the pause
loop_except_no_pause(w) ==
    /\ pc' = [pc EXCEPT ![w] = "while"]
    /\ sleeping' = [sleeping EXCEPT ![w] = 0]

\* worker_loop: except Exception -- log, then await asyncio.sleep(1)
loop_except(w) ==
    /\ pc' = [pc EXCEPT ![w] = "error_sleep"]
    /\ sleeping' = [sleeping EXCEPT ![w] = ErrorPause]

\* worker_loop: blpop raises
loop_blpop_fail(w) ==
    /\ pc[w] = "blpop"
    /\ CanFail
    /\ faults' = faults + 1
    /\ loop_except(w)
    /\ UNCHANGED <<boot, clock, store, prod, job, result, processed, shutdown_flag,
                   popped, faulted, sig_job, late_pops>>

\* handle, slow branch: asyncio.sleep(1) is over; result = f"processed:{data}"
handle_slow_done(w) ==
    /\ pc[w] = "slow_sleep"
    /\ result' = [result EXCEPT ![w] = slow_process_text(job[w].data)]
    /\ pc' = [pc EXCEPT ![w] = "hset"]
    /\ sleeping' = [sleeping EXCEPT ![w] = 0]
    /\ UNCHANGED <<boot, clock, store, prod, job, processed, shutdown_flag, hist>>

\* mutant of loop_handled: the next pop starts without the loop test
loop_handled_skips_test(w) ==
    /\ processed' = [processed EXCEPT ![w] = @ + 1]
    /\ pc' = [pc EXCEPT ![w] = "blpop"]
    /\ job' = [job EXCEPT ![w] = NoJob]
    /\ result' = [result EXCEPT ![w] = <<>>]

\* handle returned normally: processed += 1, back to the loop test
loop_handled(w) ==
    /\ processed' = [processed EXCEPT ![w] = @ + 1]
    /\ pc' = [pc EXCEPT ![w] = "while"]
    /\ job' = [job EXCEPT ![w] = NoJob]
    /\ result' = [result EXCEPT ![w] = <<>>]

\* mutant of handle_hset: the stop flag is looked at before the commit, and a
\* stopping worker leaves the loop without writing the outcome
handle_hset_checks_stop(w) ==
    /\ pc[w] = "hset"
    /\ IF shutdown_flag[w]
       THEN /\ pc' = [pc EXCEPT ![w] = "stopped"]
            /\ UNCHANGED <<results, processed, job, result>>
       ELSE /\ results' = hset(results, job[w].id, result[w])
            /\ loop_handled(w)
    /\ UNCHANGED <<boot, clock, queue, dead_letter, prod, shutdown_flag, sleeping, hist>>

\* handle: await r.hset(RESULTS, job["id"], result) on the known-kind path
handle_hset(w) ==
    /\ pc[w] = "hset"
    /\ results' = hset(results, job[w].id, result[w])
    /\ loop_handled(w)
    /\ UNCHANGED <<boot, clock, queue, dead_letter, prod, shutdown_flag, sleeping, hist>>

\* handle: a Redis command inside the try block raises -> except clause,
\* which suspends in r.hset(RESULTS, job["id"], f"error: {str(e)}")
handle_store_fail(w) ==
    /\ pc[w] \in {"hset", "dl_rpush", "dl_hset"}
    /\ CanFail
    /\ faults' = faults + 1
    /\ faulted' = faulted \cup {job[w].id}
    /\ pc' = [pc EXCEPT ![w] = "err_hset"]
    /\ UNCHANGED <<boot, clock, store, prod, job, result, processed, shutdown_flag, sleeping,
                   popped, sig_job, late_pops>>

\* handle, unknown kind: await r.rpush(DEAD_LETTER, json.dumps(job));
\* result = "dead_letter"
handle_dl_rpush(w) ==
    /\ pc[w] = "dl_rpush"
    /\ dead_letter' = rpush(dead_letter, dumps(job[w]))
    /\ result' = [result EXCEPT ![w] = DeadLetterMarker]
    /\ pc' = [pc EXCEPT ![w] = "dl_hset"]
    /\ UNCHANGED <<boot, clock, queue, results, prod, job, processed, shutdown_flag, sleeping, hist>>

\* handle, unknown kind: await r.hset(RESULTS, job["id"], result); return
handle_dl_hset(w) ==
    /\ pc[w] = "dl_hset"
    /\ results' = hset(results, job[w].id, result[w])
    /\ loop_handled(w)
    /\ UNCHANGED <<boot, clock, queue, dead_letter, prod, shutdown_flag, sleeping, hist>>

\* mutant of handle_err_hset: the failed job is also pushed back onto the queue
handle_err_hset_requeues(w) ==
    /\ pc[w] = "err_hset"
    /\ results' = hset(results, job[w].id, ErrorWritePrefix \o StoreErrorMessage)
    /\ queue' = rpush(queue, dumps(job[w]))
    /\ loop_except(w)
    /\ UNCHANGED <<boot, clock, dead_letter, prod, job, result, processed,
                   shutdown_flag, hist>>

\* handle, except clause: the error record is written, then raise reaches
\* worker_loop's except clause
handle_err_hset(w) ==
    /\ pc[w] = "err_hset"
    /\ results' = hset(results, job[w].id, ErrorWritePrefix \o StoreErrorMessage)
    /\ loop_except(w)
    /\ UNCHANGED <<boot, clock, queue, dead_letter, prod, job, result, processed, shutdown_flag, hist>>

\* handle, except clause: writing the error record raises too; that exception
\* reaches worker_loop's except clause and nothing is recorded
handle_err_hset_fail(w) ==
    /\ pc[w] = "err_hset"
    /\ CanFail
    /\ faults' = faults + 1
    /\ loop_except(w)
    /\ UNCHANGED <<boot, clock, store, prod, job, result, processed, shutdown_flag,
                   popped, faulted, sig_job, late_pops>>

\* worker_loop: asyncio.sleep(1) of the except clause is over; next iteration
loop_error_sleep_done(w) ==
    /\ pc[w] = "error_sleep"
    /\ pc' = [pc EXCEPT ![w] = "while"]
    /\ sleeping' = [sleeping EXCEPT ![w] = 0]
    /\ job' = [job EXCEPT ![w] = NoJob]
    /\ result' = [result EXCEPT ![w] = <<>>]
    /\ UNCHANGED <<boot, clock, store, prod, processed, shutdown_flag, hist>>

\* ------------------------------------------------------------ worker.py, startup
\* the values of max_attempts ensure_redis is started with
AttemptChoices == {0, 1, 3, DefaultMaxAttempts}

\* wait = min(0.5 * attempt, 5), in tenths of a time unit
Backoff(n) == IF BackoffStep * n <= BackoffCap THEN BackoffStep * n ELSE BackoffCap

\* exit status of the process when asyncio.run(main()) raises: the __main__
\* block catches Exception and passes, so the interpreter ends normally
ExitAfterException == 0

\* mutant of ensure_next: the loop does not stop at max_attempts
ensure_next_no_limit(w, n) ==
    /\ attempt' = [attempt EXCEPT ![w] = n]
    /\ pc' = [pc EXCEPT ![w] = "ping"]
    /\ UNCHANGED exit_status

\* ensure_redis: for attempt in range(1, max_attempts + 1) reaches the value n:
\* inside the range the next r.ping() is awaited; past it RuntimeError("redis
\* connection failed") is raised, main logs "fatal" and re-raises, and the
\* process ends
ensure_next(w, n) ==
    IF n <= max_attempts[w]
    THEN /\ attempt' = [attempt EXCEPT ![w] = n]
         /\ pc' = [pc EXCEPT ![w] = "ping"]
         /\ UNCHANGED exit_status
    ELSE /\ pc' = [pc EXCEPT ![w] = "failed"]
         /\ exit_status' = [exit_status EXCEPT ![w] = ExitAfterException]
         /\ UNCHANGED attempt

\* mutant of main_start: main enters worker_loop without the check
main_start_skips_check(w) ==
    /\ pc[w] = "main"
    /\ pc' = [pc EXCEPT ![w] = "while"]
    /\ UNCHANGED <<boot, clock, store, prod, job, result, processed, shutdown_flag,
                   sleeping, hist>>

\* main: await ensure_redis()
main_start(w) ==
    /\ pc[w] = "main"
    /\ ensure_next(w, 1)
    /\ UNCHANGED <<max_attempts, probes, waits, clock, store, prod, job, result,
                   processed, shutdown_flag, sleeping, hist>>

\* ensure_redis: r.ping() succeeds -> return; main: await worker_loop(), which
\* sets processed = 0 and last_heartbeat = time.time() and reaches its loop test
ensure_ping_ok(w) ==
    /\ pc[w] = "ping"
    /\ probes' = [probes EXCEPT ![w] = @ + 1]
    /\ processed' = [processed EXCEPT ![w] = 0]
    /\ last_heartbeat' = [last_heartbeat EXCEPT ![w] = now]
    /\ pc' = [pc EXCEPT ![w] = "while"]
    /\ UNCHANGED <<max_attempts, attempt, waits, exit_status, now, beats, store, prod,
                   job, result, shutdown_flag, sleeping, hist>>

\* ensure_redis: r.ping() raises -> wait = min(0.5 * attempt, 5);
\* await asyncio.sleep(wait)
ensure_ping_fail(w) ==
    /\ pc[w] = "ping"
    /\ probes' = [probes EXCEPT ![w] = @ + 1]
    /\ waits' = [waits EXCEPT ![w] = Append(@, Backoff(attempt[w]))]
    /\ pc' = [pc EXCEPT ![w] = "backoff"]
    /\ UNCHANGED <<max_attempts, attempt, exit_status, clock, store, prod, job, result,
                   processed, shutdown_flag, sleeping, hist>>

\* ensure_redis: asyncio.sleep(wait) is over; next value of attempt
ensure_backoff_done(w) ==
    /\ pc[w] = "backoff"
    /\ ensure_next(w, attempt[w] + 1)
    /\ UNCHANGED <<max_attempts, probes, waits, clock, store, prod, job, result,
                   processed, shutdown_flag, sleeping, hist>>

\* ------------------------------------------------------------ time
\* time passes; the clock is observed in steps of the pop timeout
tick ==
    /\ now < MaxTime
    /\ now' = now + BlpopTimeout
    /\ UNCHANGED <<boot, last_heartbeat, beats, store, prod, wrk, hist>>

\* ------------------------------------------------------------ services.py
\* positions inside process_next_task with a task popped
SvcPcs == {"svc_slow_sleep", "svc_hset", "svc_err_hset"}

\* the call is over (returned or raised): its locals are gone
svc_return(w) ==
    /\ pc' = [pc EXCEPT ![w] = "idle"]
    /\ job' = [job EXCEPT ![w] = NoJob]
    /\ result' = [result EXCEPT ![w] = <<>>]

\* a caller invokes process_next_task and self._queue.blpop("tasks", timeout=5)
\* returns the head item; Task(..., TaskType(kind), ...) raises ValueError for
\* a kind outside TaskType, before the try block
svc_blpop_item(w) ==
    /\ pc[w] = "idle"
    /\ queue # <<>>
    /\ queue' = Tail(queue)
    /\ LET task == loads(Head(queue))
       IN  /\ popped' = Append(popped, [w |-> w, id |-> task.id])
           /\ IF task.kind \notin TaskType
              THEN /\ svc_return(w)
                   /\ UNCHANGED sleeping
              ELSE IF task.kind = "slow"
              THEN /\ job' = [job EXCEPT ![w] = task]
                   /\ pc' = [pc EXCEPT ![w] = "svc_slow_sleep"]
                   /\ sleeping' = [sleeping EXCEPT ![w] = SlowDelay]
                   /\ UNCHANGED result
              ELSE /\ job' = [job EXCEPT ![w] = task]
                   /\ result' = [result EXCEPT ![w] = process_task(task)]
                   /\ pc' = [pc EXCEPT ![w] = "svc_hset"]
                   /\ UNCHANGED sleeping
    /\ UNCHANGED <<boot, clock, dead_letter, results, prod, processed, shutdown_flag,
                   faults, faulted, sig_job, late_pops>>

\* process_next_task: blpop times out -> return False
svc_blpop_none(w) ==
    /\ pc[w] = "idle"
    /\ queue = <<>>
    /\ svc_return(w)
    /\ UNCHANGED <<boot, clock, store, prod, processed, shutdown_flag, sleeping, hist>>

\* process_next_task: blpop raises, outside the try block
svc_blpop_fail(w) ==
    /\ pc[w] = "idle"
    /\ CanFail
    /\ faults' = faults + 1
    /\ svc_return(w)
    /\ UNCHANGED <<boot, clock, store, prod, processed, shutdown_flag, sleeping,
                   popped, faulted, sig_job, late_pops>>

\* process_next_task, SLOW: asyncio.sleep(1) is over; result = process_task(task)
svc_slow_done(w) ==
    /\ pc[w] = "svc_slow_sleep"
    /\ result' = [result EXCEPT ![w] = process_task(job[w])]
    /\ pc' = [pc EXCEPT ![w] = "svc_hset"]
    /\ sleeping' = [sleeping EXCEPT ![w] = 0]
    /\ UNCHANGED <<boot, clock, store, prod, job, processed, shutdown_flag, hist>>

\* mutant of svc_hset: the outcome is stored under a freshly made identifier
svc_hset_fresh_key(w) ==
    /\ pc[w] = "svc_hset"
    /\ results' = hset(results, uuid4, result[w])
    /\ svc_return(w)
    /\ UNCHANGED <<boot, clock, queue, dead_letter, prod, processed, shutdown_flag, sleeping, hist>>

\* process_next_task: await self._storage.hset("results", task.id, result);
\* return True
svc_hset(w) ==
    /\ pc[w] = "svc_hset"
    /\ results' = hset(results, job[w].id, result[w])
    /\ svc_return(w)
    /\ UNCHANGED <<boot, clock, queue, dead_letter, prod, processed, shutdown_flag, sleeping, hist>>

\* process_next_task: hset raises -> except clause, which suspends in
\* self._storage.hset("results", task.id, f"error: {str(e)}")
svc_store_fail(w) ==
    /\ pc[w] = "svc_hset"
    /\ CanFail
    /\ faults' = faults + 1
    /\ faulted' = faulted \cup {job[w].id}
    /\ pc' = [pc EXCEPT ![w] = "svc_err_hset"]
    /\ UNCHANGED <<boot, clock, store, prod, job, result, processed, shutdown_flag, sleeping,
                   popped, sig_job, late_pops>>

\* process_next_task, except clause: the error record is written; return True
svc_err_hset(w) ==
    /\ pc[w] = "svc_err_hset"
    /\ results' = hset(results, job[w].id, ErrorWritePrefix \o StoreErrorMessage)
    /\ svc_return(w)
    /\ UNCHANGED <<boot, clock, queue, dead_letter, prod, processed, shutdown_flag, sleeping, hist>>

\* process_next_task, except clause: writing the error record raises too
svc_err_hset_fail(w) ==
    /\ pc[w] = "svc_err_hset"
    /\ CanFail
    /\ faults' = faults + 1
    /\ svc_return(w)
    /\ UNCHANGED <<boot, clock, store, prod, processed, shutdown_flag, sleeping,
                   popped, faulted, sig_job, late_pops>>

\* ------------------------------------------------------------ pollers
\* TaskService.get_task_result(task_id) -> TaskResult
get_task_result(task_id) ==
    IF task_id \notin DOMAIN results
    THEN [task_id |-> task_id, status |-> "pending", result |-> None, error |-> None]
    ELSE IF StartsWith(results[task_id], ErrorReadPrefix)
    THEN [task_id |-> task_id, status |-> "error", result |-> None,
          error |-> DropFirst(results[task_id], 6)]
    ELSE [task_id |-> task_id, status |-> "done", result |-> results[task_id],
          error |-> None]

\* main.get_result(task_id): GET /result/{task_id}
get_result(task_id) ==
    IF task_id \notin DOMAIN results
    THEN [status |-> "pending", result |-> None]
    ELSE [status |-> "done", result |-> results[task_id]]

\* ------------------------------------------------------------ specification
Producer ==
    \/ \E kind \in Kinds, payload \in Payloads : enqueue(kind, payload)
    \/ \E task_type \in TaskType, payload \in Payloads : submit_task(task_type, payload)

LoopWorker(w) ==
    \/ handle_signal(w)
    \/ loop_enter(w)
    \/ loop_exit(w)
    \/ loop_blpop_item(w)
    \/ loop_blpop_timeout(w)
    \/ loop_blpop_fail(w)
    \/ handle_slow_done(w)
    \/ handle_hset(w)
    \/ handle_store_fail(w)
    \/ handle_dl_rpush(w)
    \/ handle_dl_hset(w)
    \/ handle_err_hset(w)
    \/ handle_err_hset_fail(w)
    \/ loop_error_sleep_done(w)

SvcWorker(w) ==
    \/ svc_blpop_item(w)
    \/ svc_blpop_none(w)
    \/ svc_blpop_fail(w)
    \/ svc_slow_done(w)
    \/ svc_hset(w)
    \/ svc_store_fail(w)
    \/ svc_err_hset(w)
    \/ svc_err_hset_fail(w)

Next ==
    \/ Producer
    \/ \E w \in LoopWorkers : LoopWorker(w)
    \/ \E w \in SvcWorkers : SvcWorker(w)

Spec == Init /\ [][Next]_vars

\* specification for liveness: the backing store stays available (no Redis
\* command fails), no shutdown signal arrives, every worker keeps running
LoopWorkerLive(w) ==
    \/ loop_enter(w)
    \/ loop_blpop_item(w)
    \/ loop_blpop_timeout(w)
    \/ handle_slow_done(w)
    \/ handle_hset(w)
    \/ handle_dl_rpush(w)
    \/ handle_dl_hset(w)

SvcWorkerLive(w) ==
    \/ svc_blpop_item(w)
    \/ svc_blpop_none(w)
    \/ svc_slow_done(w)
    \/ svc_hset(w)

NextLive ==
    \/ Producer
    \/ \E w \in LoopWorkers : LoopWorkerLive(w)
    \/ \E w \in SvcWorkers : SvcWorkerLive(w)

LiveSpec ==
    /\ Init
    /\ [][NextLive]_vars
    /\ \A w \in LoopWorkers : WF_vars(LoopWorkerLive(w))
    /\ \A w \in SvcWorkers : WF_vars(SvcWorkerLive(w))

\* specification of the startup: each worker process starts in main with some
\* max_attempts; probes fail or succeed; after a successful probe worker_loop runs
StartInit ==
    /\ queue = <<>>
    /\ dead_letter = <<>>
    /\ results = [f \in {} |-> <<>>]
    /\ pushed = <<>>
    /\ ret = [task_id |-> 0, error |-> "none"]
    /\ pc = [w \in Workers |-> IF w \in LoopWorkers THEN "main" ELSE "idle"]
    /\ job = [w \in Workers |-> NoJob]
    /\ result = [w \in Workers |-> <<>>]
    /\ processed = [w \in LoopWorkers |-> 0]
    /\ shutdown_flag = [w \in LoopWorkers |-> FALSE]
    /\ sleeping = [w \in Workers |-> 0]
    /\ faults = 0
    /\ popped = <<>>
    /\ faulted = {}
    /\ sig_job = [w \in LoopWorkers |-> 0]
    /\ late_pops = [w \in LoopWorkers |-> 0]
    /\ max_attempts \in [LoopWorkers -> AttemptChoices]
    /\ attempt = [w \in LoopWorkers |-> 0]
    /\ probes = [w \in LoopWorkers |-> 0]
    /\ waits = [w \in LoopWorkers |-> <<>>]
    /\ exit_status = [w \in LoopWorkers |-> -1]
    /\ now = 0
    /\ last_heartbeat = [w \in LoopWorkers |-> 0]
    /\ beats = <<>>

\* the producer of the startup and clock specifications: enqueue with one
\* payload and every kind
ProducerOnePayload == \E kind \in Kinds : enqueue(kind, <<"a", "b">>)

Startup(w) ==
    \/ main_start(w)
    \/ ensure_ping_ok(w)
    \/ ensure_ping_fail(w)
    \/ ensure_backoff_done(w)

StartNext ==
    \/ ProducerOnePayload
    \/ \E w \in LoopWorkers : Startup(w)
    \/ \E w \in LoopWorkers : LoopWorker(w)

StartSpec == StartInit /\ [][StartNext]_vars

\* specification with the clock running: the startup is over, one worker
\* process runs worker_loop while time passes
TimedNext ==
    \/ ProducerOnePayload
    \/ \E w \in LoopWorkers : LoopWorker(w)
    \/ tick

TimedSpec == Init /\ [][TimedNext]_vars

\* specification of the shutdown: one worker process runs worker_loop, signals
\* arrive and Redis commands fail; the event loop keeps running the worker,
\* so a step of the worker that is possible is eventually taken
Progress(w) ==
    \/ loop_enter(w)
    \/ loop_exit(w)
    \/ loop_blpop_item(w)
    \/ loop_blpop_timeout(w)
    \/ handle_slow_done(w)
    \/ handle_hset(w)
    \/ handle_dl_rpush(w)
    \/ handle_dl_hset(w)
    \/ handle_err_hset(w)
    \/ loop_error_sleep_done(w)

StopNext ==
    \/ ProducerOnePayload
    \/ \E w \in LoopWorkers : LoopWorker(w)

StopSpec ==
    /\ Init
    /\ [][StopNext]_vars
    /\ \A w \in LoopWorkers : WF_vars(Progress(w))

\* specification of the size limit: the producers are called with payloads at
\* and around the limit of 10000 characters

\* the string of n characters c
Filled(c, n) == <<>> \o [i \in 1..n |-> c]

SizePayloads == { <<" ">>, <<"a", "b">>,
                  Filled("a", MaxPayload), Filled("a", MaxPayload + 1) }

SizeNext ==
    \/ \E kind \in Kinds, payload \in SizePayloads : enqueue(kind, payload)
    \/ \E task_type \in TaskType, payload \in SizePayloads : submit_task(task_type, payload)

SizeSpec == Init /\ [][SizeNext]_vars

\* specification of the marker: the payloads include the text whose reversal
\* is the text handle stores for a dead-lettered task
MarkerPayloads == { <<"a", "b">>,
                    <<"r", "e", "t", "t", "e", "l", "_", "d", "a", "e", "d">> }

MarkerNext ==
    \/ \E kind \in Kinds, payload \in MarkerPayloads : enqueue(kind, payload)
    \/ \E task_type \in TaskType, payload \in MarkerPayloads : submit_task(task_type, payload)
    \/ \E w \in LoopWorkers : LoopWorker(w)
    \/ \E w \in SvcWorkers : SvcWorker(w)

MarkerSpec == Init /\ [][MarkerNext]_vars

\* ------------------------------------------------------------ vocabulary of the claims
PushedIds == {pushed[i].id : i \in 1..Len(pushed)}

\* a worker holds a popped job whose handling has not finished
Busy(w) == pc[w] \in HandlePcs \cup SvcPcs

InQueue(id) == \E i \in 1..Len(queue) : loads(queue[i]).id = id

InFlight(id) == \E w \in Workers : Busy(w) /\ job[w].id = id

\* the task was pushed, popped, and the worker that popped it is done with it
Handled(id) == id \in PushedIds /\ ~InQueue(id) /\ ~InFlight(id)

\* the documented transformations (section 4.3), stated independently of the code
RECURSIVE Reversed(_)
Reversed(s) == IF s = <<>> THEN <<>> ELSE Append(Reversed(Tail(s)), Head(s))

RECURSIVE Uppercased(_)
Uppercased(s) ==
    IF s = <<>> THEN <<>> ELSE <<UpperChar(Head(s))>> \o Uppercased(Tail(s))

Documented(kind, payload) ==
    CASE kind = "reverse" -> Reversed(payload)
      [] kind = "uppercase" -> Uppercased(payload)
      [] kind = "slow" -> <<"p", "r", "o", "c", "e", "s", "s", "e", "d", ":">> \o payload

\* the record a worker writes for a failure with message StoreErrorMessage
ErrorRecord == <<"e", "r", "r", "o", "r", ":", " ">> \o StoreErrorMessage

\* ------------------------------------------------------------ claims
\* C1: every task of a known kind with a valid payload that a worker has
\* handled (no Redis command having failed meanwhile) is polled as done with
\* exactly the documented value, by both pollers, whatever the payload.
C1_PollReturnsDocumentedValue ==
    \A i \in 1..Len(pushed) :
        LET j == pushed[i]
        IN  (/\ j.kind \in TaskType
             /\ validate(j.data) = "ok"
             /\ Handled(j.id)
             /\ j.id \notin faulted)
            => /\ get_task_result(j.id).status = "done"
               /\ get_task_result(j.id).result = Documented(j.kind, j.data)
               /\ get_result(j.id) = [status |-> "done",
                                      result |-> Documented(j.kind, j.data)]

\* C2: liveness -- with the store available and all workers running fairly,
\* every pushed task eventually has a record in the result store.
C2_EveryPushedTaskGetsRecord ==
    \A id \in 1..MaxTasks : (id \in PushedIds) ~> (id \in DOMAIN results)

\* C3: a handled task of a foreign kind (no Redis command having failed) has
\* the dead-letter marker as its outcome and exactly one dead-letter entry,
\* which carries its original payload -- whichever worker popped it.
C3_UnknownKindDeadLettered ==
    \A i \in 1..Len(pushed) :
        LET j == pushed[i]
            entries == {k \in 1..Len(dead_letter) : loads(dead_letter[k]).id = j.id}
        IN  (j.kind \notin TaskType /\ Handled(j.id) /\ j.id \notin faulted)
            => /\ j.id \in DOMAIN results
               /\ results[j.id] = DeadLetterMarker
               /\ Cardinality(entries) = 1
               /\ \A k \in entries : loads(dead_letter[k]).data = j.data

\* C4: no queue entry is ever created for an empty or whitespace-only
\* payload, whichever producer was called.
C4_BlankPayloadNeverQueued ==
    \A i \in 1..Len(pushed) : Strip(pushed[i].data) # <<>>

\* C5: when the queue is empty and no task is in flight, every submitted id
\* (whose handling hit no Redis failure) has an outcome, no outcome exists for
\* an id that was not submitted, and no id was popped twice.
C5_OneOutcomePerSubmittedId ==
    (queue = <<>> /\ \A w \in Workers : ~Busy(w))
    => /\ \A id \in PushedIds \ faulted : id \in DOMAIN results
       /\ DOMAIN results \subseteq PushedIds
       /\ \A a, b \in 1..Len(popped) : popped[a].id = popped[b].id => a = b

C7_OutcomesStable ==
    [][\A id \in DOMAIN results :
           id \in DOMAIN results' /\ results'[id] = results[id]]_vars

C7_Witness ==
    \E a, b \in DOMAIN results :
        /\ a # b
        /\ get_task_result(a).status = "done"
        /\ get_task_result(b).status = "error"

\* C8: an id that was never submitted is polled as pending by both pollers,
\* and the result store has no key that is not the id of a pushed task.
C8_NeverSubmittedIsPending ==
    /\ DOMAIN results \subseteq PushedIds
    /\ \A id \in 1..(MaxTasks + 1) :
           id \notin PushedIds
           => /\ get_task_result(id).status = "pending"
              /\ get_result(id).status = "pending"

C8_Witness ==
    /\ DOMAIN results # {}
    /\ dead_letter # <<>>
    /\ Len(pushed) < MaxTasks
    /\ get_task_result(Len(pushed) + 1).status = "pending"

C10_RetriesSameIteration ==
    \A w \in LoopWorkers :
        /\ pc[w] = "error_sleep"
           => /\ sleeping[w] = 1
              /\ job[w] # NoJob => (queue # <<>> /\ Head(queue) = dumps(job[w]))
        /\ pc[w] = "stopped" => shutdown_flag[w]

\* C10 (amended): a step of a loop worker in which a Redis command fails leads
\* to handle's except clause or to the pause of 1 time unit, with the queue
\* untouched; the pause is followed by the loop test of the next iteration;
\* the loop exits only from its test with the stop flag set.
C10_FailurePausesThenNextIteration ==
    [][\A w \in LoopWorkers :
          /\ (faults' # faults /\ pc'[w] # pc[w])
             => /\ \/ pc'[w] = "err_hset"
                   \/ pc'[w] = "error_sleep" /\ sleeping'[w] = 1
                /\ queue' = queue
          /\ (pc[w] = "error_sleep" /\ pc'[w] # pc[w]) => pc'[w] = "while"
          /\ (pc'[w] = "stopped" /\ pc[w] # "stopped")
             => (pc[w] = "while" /\ shutdown_flag[w])]_vars

\* both writes for a loop worker's first task failed: the task has no
\* outcome, and after the pause the worker popped and handled the next task
C10_Witness ==
    \E w \in LoopWorkers :
        /\ Len(popped) = 2
        /\ popped[1].w = w /\ popped[2].w = w
        /\ popped[1].id \in faulted
        /\ popped[1].id \notin DOMAIN results
        /\ popped[2].id \in DOMAIN results
        /\ faults = 2

\* ------------------------------------------------------------ startup claims
\* positions of a worker process before worker_loop has started
StartupPcs == {"main", "ping", "backoff", "failed"}

\* C11: ensure_redis probes at most max_attempts times; once a probe has
\* succeeded (worker_loop runs) that probe was the last one, all earlier ones
\* failed, and no probe follows; when it has failed, exactly max_attempts
\* probes were made and every one of them failed.
C11_ProbesBounded ==
    \A w \in LoopWorkers :
        /\ probes[w] <= max_attempts[w]
        /\ pc[w] \notin StartupPcs => probes[w] = Len(waits[w]) + 1
        /\ pc[w] = "failed"
           => (probes[w] = max_attempts[w] /\ Len(waits[w]) = max_attempts[w])

\* all of the default 20 probes failed and ensure_redis gave up
C11_Witness ==
    \E w \in LoopWorkers :
        /\ pc[w] = "failed"
        /\ max_attempts[w] = DefaultMaxAttempts
        /\ probes[w] = DefaultMaxAttempts

\* C12: when the startup check has exhausted its attempts and failed, the
\* worker process has exited with a non-zero status.
C12_FailedStartupExitsNonZero ==
    \A w \in LoopWorkers : pc[w] = "failed" => exit_status[w] > 0

\* C17: the wait after failed probe number n is min(0.5 n, 5) (5 n tenths
\* below attempt 10, 50 tenths from attempt 10 on), and a wait occurs only
\* before a retry: there are fewer waits than permitted probes.
C17_BackoffSchedule ==
    \A w \in LoopWorkers :
        /\ \A n \in 1..Len(waits[w]) :
               waits[w][n] = IF n < 10 THEN 5 * n ELSE 50
        /\ Len(waits[w]) > 0 => Len(waits[w]) < max_attempts[w]

\* C18: before a probe has succeeded the worker has popped nothing and
\* counted nothing, and while no worker has started the queue holds every
\* pushed item and the results and the dead-letter list are empty -- also
\* after the check has failed; a worker that runs its loop made exactly one
\* successful probe, its last one.
C18_CheckBeforeLoop ==
    /\ \A w \in LoopWorkers :
           /\ pc[w] \in StartupPcs
              => /\ \A i \in 1..Len(popped) : popped[i].w # w
                 /\ processed[w] = 0
           /\ pc[w] \notin StartupPcs => probes[w] = Len(waits[w]) + 1
    /\ (\A w \in LoopWorkers : pc[w] \in StartupPcs)
       => /\ queue = [i \in 1..Len(pushed) |-> dumps(pushed[i])]
          /\ DOMAIN results = {}
          /\ dead_letter = <<>>

\* the check failed after at least one probe while tasks were waiting
C18_Witness ==
    \E w \in LoopWorkers :
        /\ pc[w] = "failed"
        /\ probes[w] >= 1
        /\ Len(queue) = MaxTasks

\* ------------------------------------------------------------ outcome claims
\* C13: an error recorded with message m is stored as the error prefix
\* followed by m, and the poll of that id returns error with message exactly m.
C13_ErrorRoundTrips ==
    \A id \in faulted \cap DOMAIN results :
        /\ results[id] = ErrorWritePrefix \o StoreErrorMessage
        /\ get_task_result(id).status = "error"
        /\ get_task_result(id).error = StoreErrorMessage

\* C14: a poll returns one of pending, done, error, dead_lettered, and for an
\* id whose job is on the dead-letter list and has its outcome recorded it
\* returns dead_lettered, not done.
C14_DeadLetteredOutcome ==
    /\ \A id \in 1..(MaxTasks + 1) :
           /\ get_task_result(id).status \in {"pending", "done", "error", "dead_lettered"}
           /\ get_result(id).status \in {"pending", "done", "error", "dead_lettered"}
    /\ \A i \in 1..Len(dead_letter) :
           LET id == loads(dead_letter[i]).id
           IN  (id \in DOMAIN results /\ id \notin faulted)
               => /\ get_task_result(id).status = "dead_lettered"
                  /\ get_result(id).status = "dead_lettered"

\* C15: tasks are dequeued in the order they were pushed, and when one worker
\* has done all the dequeuing, every task dequeued before the latest one
\* (and handled without a Redis failure) has its outcome recorded.
C15_FifoSingleWorker ==
    /\ \A i \in 1..Len(popped) : popped[i].id = pushed[i].id
    /\ (\A i, j \in 1..Len(popped) : popped[i].w = popped[j].w)
       => \A i \in 1..(Len(popped) - 1) :
              popped[i].id \notin faulted => popped[i].id \in DOMAIN results

\* C19: the processed counter of a worker equals the number of tasks it
\* dequeued that have an outcome recorded (done, error or dead-lettered).
C19_ProcessedCountsOutcomes ==
    \A w \in LoopWorkers :
        processed[w] = Cardinality({i \in 1..Len(popped) :
                                       popped[i].w = w /\ popped[i].id \in DOMAIN results})

\* ------------------------------------------------------------ size claim
\* C16: a payload is accepted by the validation exactly when it is not blank
\* and has at most 10000 characters, and no payload longer than 10000
\* characters is ever on the queue.
C16_SizeLimit ==
    /\ \A payload \in SizePayloads :
           validate(payload) = "ok"
               <=> /\ \E i \in 1..Len(payload) : ~IsSpace(payload[i])
                   /\ Len(payload) <= 10000
    /\ \A i \in 1..Len(queue) : Len(loads(queue[i]).data) <= 10000

\* ------------------------------------------------------------ heartbeat claim
\* C20: a heartbeat is emitted only by a step of a worker whose pop timed out
\* on the empty queue (so no task is in flight) and only when at least the
\* heartbeat interval has passed since its last heartbeat time; that step sets
\* last_heartbeat to the current time, and no other step changes it; every
\* earlier heartbeat of the worker is at least one interval older.
C20_HeartbeatSpacing ==
    [][/\ beats' # beats
          => \E w \in LoopWorkers :
                /\ pc[w] = "blpop" /\ pc'[w] = "while"
                /\ queue = <<>>
                /\ job[w] = NoJob
                /\ now - last_heartbeat[w] >= 30
                /\ Len(beats') = Len(beats) + 1
                /\ SubSeq(beats', 1, Len(beats)) = beats
                /\ beats'[Len(beats')].w = w
                /\ beats'[Len(beats')].at = now
                /\ last_heartbeat'[w] = now
                /\ \A i \in 1..Len(beats) :
                       beats[i].w = w => now - beats[i].at >= 30
       /\ \A w \in LoopWorkers :
              last_heartbeat'[w] # last_heartbeat[w]
              => (beats' # beats /\ beats'[Len(beats')].w = w)]_vars

\* a worker has emitted two heartbeats and handled a task between them
C20_Witness ==
    \E w \in LoopWorkers :
        /\ Len(beats) = 2
        /\ beats[1].w = w /\ beats[2].w = w
        /\ beats[2].at - beats[1].at >= heartbeat_interval
        /\ beats[1].processed = 0
        /\ beats[2].processed >= 1

\* ------------------------------------------------------------ shutdown claims
\* C21: once the stop flag of a worker is set the worker eventually reaches
\* the position stopped, whatever the queue holds and whether Redis commands
\* fail; a stopped worker stays stopped and pops, writes and counts nothing.
C21_ShutdownTerminates ==
    /\ \A w \in LoopWorkers : shutdown_flag[w] ~> (pc[w] = "stopped")
    /\ [][\A w \in LoopWorkers :
              pc[w] = "stopped"
              => /\ pc'[w] = "stopped"
                 /\ UNCHANGED <<popped, results, dead_letter, processed, job, result,
                                exit_status, beats>>]_vars

\* the worker has stopped after a Redis failure, with a task left on the queue
C21_Witness ==
    \E w \in LoopWorkers :
        /\ pc[w] = "stopped"
        /\ shutdown_flag[w]
        /\ queue # <<>>
        /\ faults >= 1

\* ------------------------------------------------------------ dead-letter claims
\* C22: every step leaves the dead-letter list as it is or appends one entry
\* to it, and the step that appends is the dead-letter push of a worker whose
\* job has a kind outside the known kinds; the entry is that job, serialized.
C22_DeadLetterAppendOnly ==
    [][/\ Len(dead_letter') >= Len(dead_letter)
       /\ SubSeq(dead_letter', 1, Len(dead_letter)) = dead_letter
       /\ dead_letter' # dead_letter
          => \E w \in Workers :
                /\ pc[w] = "dl_rpush"
                /\ job[w].kind \notin {"reverse", "uppercase", "slow"}
                /\ dead_letter' = Append(dead_letter, dumps(job[w]))]_vars

\* two unknown-kind tasks have been dead-lettered, one after the other
C22_Witness ==
    /\ Len(dead_letter) = 2
    /\ loads(dead_letter[1]).id # loads(dead_letter[2]).id
    /\ \A i \in 1..2 : loads(dead_letter[i]).id \in DOMAIN results

\* C23: every dead-letter entry is the serialized task that was dequeued (same
\* id, kind and data as a pushed task of a foreign kind) followed by the
\* reason "unknown kind: <value>" naming that kind.
C23_EntryCarriesReason ==
    \A i \in 1..Len(dead_letter) :
        \E k \in 1..Len(pushed) :
            /\ pushed[k].kind \notin {"reverse", "uppercase", "slow"}
            /\ dead_letter[i] = dumps(pushed[k]) \o <<"unknown kind: ", pushed[k].kind>>

\* ------------------------------------------------------------ delivery claims
\* C24: the queue grows only by the push of a producer (no worker moves in
\* that step), and a pop removes the head and delivers an id that no pop has
\* delivered before.
C24_AtMostOnce ==
    [][/\ Len(queue') > Len(queue)
          => /\ Len(pushed') = Len(pushed) + 1
             /\ queue' = Append(queue, dumps(pushed'[Len(pushed')]))
             /\ pc' = pc
       /\ popped' # popped
          => /\ Len(popped') = Len(popped) + 1
             /\ SubSeq(popped', 1, Len(popped)) = popped
             /\ \A i \in 1..Len(popped) : popped[i].id # popped'[Len(popped')].id
             /\ queue # <<>>
             /\ queue' = Tail(queue)
             /\ loads(Head(queue)).id = popped'[Len(popped')].id]_vars

\* a task whose handling failed twice has no outcome; it was popped once, is
\* not on the queue, and every worker is idle again
C24_Witness ==
    \E id \in faulted :
        /\ id \notin DOMAIN results
        /\ Handled(id)
        /\ Cardinality({i \in 1..Len(popped) : popped[i].id = id}) = 1
        /\ queue = <<>>
        /\ \A w \in Workers : ~Busy(w)
        /\ \A w \in LoopWorkers : pc[w] = "blpop"

\* C25: when two queued items with the same kind and the same payload have
\* been handled without a Redis failure, one by worker.handle and one by
\* WorkerService.process_next_task, the result store holds the same entry
\* under both ids (or an entry under neither).
C25_WorkersEquivalent ==
    \A a, b \in 1..Len(popped) :
        LET ja == pushed[popped[a].id]
            jb == pushed[popped[b].id]
        IN  ( /\ popped[a].w \in LoopWorkers
              /\ popped[b].w \in SvcWorkers
              /\ ja.kind = jb.kind
              /\ ja.data = jb.data
              /\ Handled(ja.id) /\ Handled(jb.id)
              /\ ja.id \notin faulted /\ jb.id \notin faulted )
            => /\ ja.id \in DOMAIN results <=> jb.id \in DOMAIN results
               /\ (ja.id \in DOMAIN results /\ jb.id \in DOMAIN results)
                  => results[ja.id] = results[jb.id]

\* C26: a worker completes at most one pop with its stop flag set; a step of
\* a worker whose flag is set changes the queue only by that one pop, which
\* removes the head and leaves the rest of the queue as it was.
C26_AtMostOnePopAfterStop ==
    [][\A w \in LoopWorkers :
          /\ late_pops'[w] <= 1
          /\ (shutdown_flag[w] /\ pc'[w] # pc[w] /\ queue' # queue)
             => /\ pc[w] = "blpop"
                /\ queue # <<>>
                /\ queue' = Tail(queue)
                /\ late_pops[w] = 0
                /\ late_pops'[w] = 1]_vars

\* the flag was set while the pop was in progress: the worker popped one
\* item, handled it and stopped, and the other item is still on the queue
C26_Witness ==
    \E w \in LoopWorkers :
        /\ pc[w] = "stopped"
        /\ late_pops[w] = 1
        /\ processed[w] = 1
        /\ Len(queue) = 1

\* C27: whenever the result store holds "dead_letter" under a task id, the
\* dead-letter list holds an entry with that id.
C27_MarkerImpliesEntry ==
    \A id \in DOMAIN results :
        results[id] = DeadLetterMarker
        => \E i \in 1..Len(dead_letter) : loads(dead_letter[i]).id = id

====
